---- MODULE Spec2Model ----
(***************************************************************************)
(* Model of the itinerary-to-booking resolution of the Smart Vacation      *)
(* Planner: night allocation, flight and hotel selection, cost             *)
(* aggregation, and the optional commit to the bookings ledger             *)
(* (src/src/booker_agent.py, src/src/tools/inventory_tools.py,             *)
(* src/src/tools/booking_tools.py).                                        *)
(*                                                                         *)
(* Dates are day numbers: the integer d stands for the ISO text of day d,  *)
(* BadText for a text date.fromisoformat rejects.  City, country and style *)
(* names are strings; lower() and strip() are tables over the names used.  *)
(***************************************************************************)
EXTENDS Integers, Sequences, FiniteSets, TLC

VARIABLES flights, hotels, bookings, call, result

vars == <<flights, hotels, bookings, call, result>>

---------------------------------------------------------------------------
(* Bounds of the model.                                                    *)

MaxDays == 2

MaxCities == 2

OutboundSlots == 2

HotelSlots == 2

MaxAllocCities == 4

MaxAllocDays == 6

\* The records the ledger holds at most in SpecLedger.
MaxBookings == 3

NearSlots == 6

---------------------------------------------------------------------------
(* Python helpers.                                                         *)

\* None, where the code returns or compares it for a date.
NoDate == 0 - 1

\* A date text that date.fromisoformat rejects.
BadText == 0 - 2

\* A value that is no number (a text, None) where the code computes with one.
NotANumber == 0 - 3

Range(s) == {s[i] : i \in DOMAIN s}

Abs(n) == IF n < 0 THEN 0 - n ELSE n

RECURSIVE SumSeq(_)
SumSeq(s) == IF s = <<>> THEN 0 ELSE Head(s) + SumSeq(Tail(s))

\* int(x) of a float product x = n * (num / 10): truncation towards zero.
\* For the integers of the model the float product is exact enough that
\* int(n * 0.2) = trunc(2n / 10) and int(n * 1.2) = trunc(12n / 10).
IntOfTenths(n, num) ==
    IF n * num >= 0 THEN (n * num) \div 10 ELSE 0 - ((0 - (n * num)) \div 10)

\* str.lower() on the names that occur.
Lower(s) ==
    CASE s = "A" -> "a"
      [] s = "B" -> "b"
      [] s = "O" -> "o"
      [] s = "X" -> "x"
      [] s = "Y" -> "y"
      [] s = " A" -> " a"
      [] s = "Luxury" -> "luxury"
      [] OTHER -> s

\* str.strip() on the names that occur.
Strip(s) ==
    CASE s = " A" -> "A"
      [] s = " a" -> "a"
      [] OTHER -> s

\* min(seq, key=...) over the keys of the elements: the index of the first
\* element whose key is minimal.
MinFirstIndex(keys) ==
    CHOOSE i \in DOMAIN keys :
        /\ \A j \in DOMAIN keys : keys[i] <= keys[j]
        /\ \A j \in 1..(i - 1) : keys[j] > keys[i]

RemoveAt(s, i) == SubSeq(s, 1, i - 1) \o SubSeq(s, i + 1, Len(s))

\* list.sort(key=...): stable, ascending; keys[i] is the key of s[i].
RECURSIVE SortStable(_, _)
SortStable(s, keys) ==
    IF s = <<>> THEN <<>>
    ELSE LET i == MinFirstIndex(keys)
         IN  <<s[i]>> \o SortStable(RemoveAt(s, i), RemoveAt(keys, i))

\* seq[:n]
Take(s, n) == SubSeq(s, 1, IF Len(s) < n THEN Len(s) ELSE n)

\* date.isoformat(): the text <<year, month, day of the month>> of a day.
\* Days are counted from 21 January of a common year, so that day 10 is
\* 31 January and day 11 is 1 February.
MonthLengths == <<31, 28, 31, 30, 31, 30, 31, 31, 30, 31, 30, 31>>

RECURSIVE month_day(_, _)
month_day(month, n) ==
    IF n <= MonthLengths[month] THEN <<month, n>>
    ELSE month_day(month + 1, n - MonthLengths[month])

isoformat(day) == <<2025>> \o month_day(1, day + 21)

---------------------------------------------------------------------------
(* booker_agent._split_nights_across_cities                                *)

\* The index of the last occurrence of c in cities: a dict assignment
\* nights[city] = ... made later in the loop overwrites an earlier one.
LastIndexOf(cities, c) ==
    CHOOSE i \in DOMAIN cities :
        /\ cities[i] = c
        /\ \A j \in (i + 1)..Len(cities) : cities[j] # c

split_nights_wrong_remainder(cities, total_days) ==
    IF cities = <<>> THEN <<>>
    ELSE LET base == total_days \div Len(cities)
             remainder == total_days % Len(cities)
         IN  [c \in Range(cities) |->
                base + (IF LastIndexOf(cities, c) - 1 <= remainder THEN 1 ELSE 0)]

\* The remainder handed to the last cities instead of the first.
split_nights_remainder_last(cities, total_days) ==
    IF cities = <<>> THEN <<>>
    ELSE LET base == total_days \div Len(cities)
             remainder == total_days % Len(cities)
         IN  [c \in Range(cities) |->
                base + (IF LastIndexOf(cities, c) > Len(cities) - remainder THEN 1 ELSE 0)]

split_nights_across_cities(cities, total_days) ==
    IF cities = <<>> THEN <<>>
    ELSE LET base == total_days \div Len(cities)
             remainder == total_days % Len(cities)
         IN  [c \in Range(cities) |->
                base + (IF LastIndexOf(cities, c) - 1 < remainder THEN 1 ELSE 0)]

---------------------------------------------------------------------------
(* inventory_tools: the catalog queries.  load_flights() and load_hotels() *)
(* are the variables flights and hotels, passed in as fl and hl.           *)

\* _parse_date: the date of an ISO text, None for anything else.
parse_date(value) == IF value >= 0 THEN value ELSE NoDate

seats_of(f) == f.seats_left

SameName(recordValue, queryValue) == Lower(recordValue) = Lower(Strip(queryValue))

OnRoute(f, frm, to) == SameName(f.from, frm) /\ SameName(f.to, to)

\* An exact-date leg that does not look at the seats.
exact_options_ignoring_seats(fl, frm, to, day) ==
    LET Test(f) == /\ OnRoute(f, frm, to)
                   /\ parse_date(f.date) = day
    IN  SelectSeq(fl, Test)

\* The list comprehension of an exact-date leg (outbound_options, return_options).
exact_options(fl, frm, to, day) ==
    LET Test(f) == /\ OnRoute(f, frm, to)
                   /\ seats_of(f) > 0
                   /\ parse_date(f.date) = day
    IN  SelectSeq(fl, Test)

DayDistance(f, day) == Abs(parse_date(f.date) - day)

NearestLimit == 5

\* A fallback that keeps the single nearest flight.
nearest_only(fl, frm, to, day) ==
    LET Test(f) == /\ OnRoute(f, frm, to)
                   /\ seats_of(f) > 0
                   /\ parse_date(f.date) # NoDate
        candidates == SelectSeq(fl, Test)
        keys == [i \in DOMAIN candidates |-> DayDistance(candidates[i], day)]
    IN  Take(SortStable(candidates, keys), 1)

\* A fallback that keeps every candidate.
nearest_unlimited(fl, frm, to, day) ==
    LET Test(f) == /\ OnRoute(f, frm, to)
                   /\ seats_of(f) > 0
                   /\ parse_date(f.date) # NoDate
        candidates == SelectSeq(fl, Test)
        keys == [i \in DOMAIN candidates |-> DayDistance(candidates[i], day)]
    IN  SortStable(candidates, keys)

\* The nearest-date fallback of a leg: the seat-available flights of the
\* route with a parseable date, sorted by distance to the day, the first 5.
nearest_options(fl, frm, to, day) ==
    LET Test(f) == /\ OnRoute(f, frm, to)
                   /\ seats_of(f) > 0
                   /\ parse_date(f.date) # NoDate
        candidates == SelectSeq(fl, Test)
        keys == [i \in DOMAIN candidates |-> DayDistance(candidates[i], day)]
    IN  Take(SortStable(candidates, keys), NearestLimit)

\* `if not outbound_options:` - the exact-date list, else the fallback list.
or_nearest(exact, nearest) == IF exact # <<>> THEN exact ELSE nearest

leg_options(fl, frm, to, day) ==
    or_nearest(exact_options(fl, frm, to, day), nearest_options(fl, frm, to, day))

find_flights_for_trip(fl, origin, first_city, last_city, start_date, return_date) ==
    [outbound_options |-> leg_options(fl, origin, first_city, start_date),
     return_options   |-> leg_options(fl, last_city, origin, return_date)]

find_hotels_for_city(hl, city, country, style, stay_start, stay_end) ==
    LET Test(h) == /\ SameName(h.city, city)
                   /\ SameName(h.country, country)
                   /\ SameName(h.category, style)
                   /\ h.rooms_left > 0
                   /\ parse_date(h.available_from) # NoDate
                   /\ parse_date(h.available_to) # NoDate
                   /\ parse_date(h.available_from) <= stay_start
                   /\ stay_start <= parse_date(h.available_to)
                   /\ parse_date(h.available_from) <= stay_end
                   /\ stay_end <= parse_date(h.available_to)
    IN  SelectSeq(hl, Test)

---------------------------------------------------------------------------
(* booker_agent.book_itinerary: the resolution.                            *)

PrefKeys == {"origin_city", "travel_style", "budget_idr", "trip_length_days", "start_date"}

\* The try block of book_itinerary: every key is read, start_date is parsed.
prefs_valid(user_prefs) ==
    /\ PrefKeys \subseteq DOMAIN user_prefs
    /\ parse_date(user_prefs.start_date) # NoDate

\* The cheapest flight with ties going to the last one met.
cheapest_flight_last_tie(options) ==
    options[Len(options) + 1
            - MinFirstIndex([i \in DOMAIN options |->
                                options[Len(options) + 1 - i].base_price_idr])]

\* min(options, key=base_price_idr)
cheapest_flight(options) ==
    options[MinFirstIndex([i \in DOMAIN options |-> options[i].base_price_idr])]

\* The first match, whatever its price.
first_hotel(candidates) == candidates[1]

\* min(candidates, key=price_per_night_idr)
cheapest_hotel(candidates) ==
    candidates[MinFirstIndex([i \in DOMAIN candidates |-> candidates[i].price_per_night_idr])]

\* A downgrade chain that sends luxury straight to backpacker.
fallback_style_skipping(travel_style) ==
    CASE travel_style = "luxury" -> "backpacker"
      [] travel_style = "mid-range" -> "backpacker"
      [] OTHER -> ""

fallback_style(travel_style) ==
    CASE travel_style = "luxury" -> "mid-range"
      [] travel_style = "mid-range" -> "backpacker"
      [] OTHER -> ""

\* `if not candidates:` - the requested style's matches, else those of the
\* one retry with the downgraded style, when there is one.
or_fallback(first, retry, travel_style) ==
    IF first # <<>> THEN first
    ELSE IF fallback_style(travel_style) # "" THEN retry ELSE <<>>

hotel_candidates(hl, city, country, travel_style, stay_start, stay_end) ==
    or_fallback(find_hotels_for_city(hl, city, country, travel_style, stay_start, stay_end),
                find_hotels_for_city(hl, city, country, fallback_style(travel_style),
                                     stay_start, stay_end),
                travel_style)

hotel_copy(hotel, nights, stay_start, stay_end) ==
    [id |-> hotel.id, city |-> hotel.city, country |-> hotel.country,
     category |-> hotel.category, price_per_night_idr |-> hotel.price_per_night_idr,
     rooms_left |-> hotel.rooms_left, available_from |-> hotel.available_from,
     available_to |-> hotel.available_to,
     nights |-> nights, stay_start_date |-> isoformat(stay_start),
     stay_end_date |-> isoformat(stay_end)]

\* The loop over the cities from index i on, day_offset and chosen_hotels as
\* the loop has them there; failed names the city whose lookup found nothing.
RECURSIVE hotel_loop(_, _, _, _, _, _, _, _)
\* A step that does not advance day_offset: every stay starts on start_date.
hotel_step_from_start(hl, cities, nights_per_city, country, travel_style, start_date, i, day_offset, chosen_hotels, nights, candidates) ==
    IF candidates = <<>>
    THEN [chosen_hotels |-> chosen_hotels, failed |-> cities[i]]
    ELSE hotel_loop(hl, cities, nights_per_city, country, travel_style, start_date,
                    i + 1, [day_offset |-> day_offset,
                            chosen_hotels |-> Append(chosen_hotels,
                                hotel_copy(cheapest_hotel(candidates), nights,
                                           start_date + day_offset,
                                           start_date + day_offset + (nights - 1)))])

hotel_step(hl, cities, nights_per_city, country, travel_style, start_date, i, day_offset, chosen_hotels, nights, candidates) ==
    IF candidates = <<>>
    THEN [chosen_hotels |-> chosen_hotels, failed |-> cities[i]]
    ELSE hotel_loop(hl, cities, nights_per_city, country, travel_style, start_date,
                    i + 1, [day_offset |-> day_offset + nights,
                            chosen_hotels |-> Append(chosen_hotels,
                                hotel_copy(cheapest_hotel(candidates), nights,
                                           start_date + day_offset,
                                           start_date + day_offset + (nights - 1)))])

hotel_loop(hl, cities, nights_per_city, country, travel_style, start_date, i, st) ==
    IF i > Len(cities) THEN [chosen_hotels |-> st.chosen_hotels, failed |-> ""]
    ELSE IF nights_per_city[cities[i]] <= 0
    THEN hotel_loop(hl, cities, nights_per_city, country, travel_style, start_date,
                    i + 1, st)
    ELSE hotel_step(hl, cities, nights_per_city, country, travel_style, start_date,
                    i, st.day_offset, st.chosen_hotels, nights_per_city[cities[i]],
                    hotel_candidates(hl, cities[i], country, travel_style,
                        start_date + st.day_offset,
                        start_date + st.day_offset + (nights_per_city[cities[i]] - 1)))

stay_of(h) ==
    [city |-> h.city, country |-> h.country, hotel_id |-> h.id, nights |-> h.nights,
     stay_start_date |-> h.stay_start_date, stay_end_date |-> h.stay_end_date,
     category |-> h.category]

\* A rounded buffer: round(base_cost * 0.2) in place of int(...).
buffer_rounded(base_cost) == IntOfTenths(base_cost * 10 + 25, 2) \div 10

\* int(base_cost * 0.2)
buffer_of(base_cost) == IntOfTenths(base_cost, 2)

\* The budget without its 20% margin.
budget_limit_no_margin(budget_idr) == budget_idr

\* int(budget_idr * 1.2)
budget_limit(budget_idr) == IntOfTenths(budget_idr, 12)

total_accommodation_of(chosen_hotels) ==
    SumSeq([i \in DOMAIN chosen_hotels |->
               chosen_hotels[i].price_per_night_idr * chosen_hotels[i].nights])

breakdown(outbound_cost, return_cost, total_accommodation, extra) ==
    [outbound_flight |-> outbound_cost,
     return_flight |-> return_cost,
     total_flights |-> outbound_cost + return_cost,
     accommodation |-> total_accommodation,
     buffer_activities_transport |-> extra,
     grand_total |-> outbound_cost + return_cost + total_accommodation + extra]

accommodation_breakdown(outbound, returning, total_accommodation) ==
    breakdown(outbound.base_price_idr, returning.base_price_idr, total_accommodation,
              buffer_of(outbound.base_price_idr + returning.base_price_idr
                        + total_accommodation))

cost_breakdown_of(outbound, returning, chosen_hotels) ==
    accommodation_breakdown(outbound, returning, total_accommodation_of(chosen_hotels))

Failure(kind, city, style) ==
    [status |-> "error", error |-> kind, city |-> city, style |-> style]

\* Lines 102-134: the costs, the budget flag and the stay plan.
resolved(user_prefs, start_date, end_date, outbound, returning, chosen_hotels, cost_breakdown) ==
    [status |-> "ok",
     start_date |-> start_date,
     end_date |-> end_date,
     chosen_flights |-> <<outbound, returning>>,
     chosen_hotels |-> chosen_hotels,
     total_price_idr |-> cost_breakdown.grand_total,
     budget_warning |-> (cost_breakdown.grand_total > budget_limit(user_prefs.budget_idr)),
     stay_plan |-> [i \in DOMAIN chosen_hotels |-> stay_of(chosen_hotels[i])],
     cost_breakdown |-> cost_breakdown]

\* Lines 92-134: after the loop over the cities.
resolve_hotels(user_prefs, start_date, end_date, outbound, returning, looped) ==
    IF looped.failed # ""
    THEN Failure("NoHotelsAvailable", looped.failed, user_prefs.travel_style)
    ELSE IF user_prefs.budget_idr = NotANumber
    THEN \* line 111: budget_idr * 1.2 raises TypeError, which nothing catches
         Failure("TypeError", "", "")
    ELSE resolved(user_prefs, start_date, end_date, outbound, returning,
                  looped.chosen_hotels,
                  cost_breakdown_of(outbound, returning, looped.chosen_hotels))

\* Lines 57-100: the flights chosen, the nights allotted, the loop.
resolve_flights(hl, chosen_itinerary, user_prefs, start_date, end_date, flights_result) ==
    IF flights_result.outbound_options = <<>> \/ flights_result.return_options = <<>>
    THEN Failure("NoFlightsAvailable", "", "")
    ELSE resolve_hotels(user_prefs, start_date, end_date,
             cheapest_flight(flights_result.outbound_options),
             cheapest_flight(flights_result.return_options),
             hotel_loop(hl, chosen_itinerary.cities,
                 split_nights_across_cities(chosen_itinerary.cities,
                                            user_prefs.trip_length_days),
                 chosen_itinerary.destination_country, user_prefs.travel_style,
                 start_date, 1, [day_offset |-> 0, chosen_hotels |-> <<>>]))

\* Lines 45-56: the end date, the cities, the flight search.
resolve_dates(fl, hl, chosen_itinerary, user_prefs, start_date, end_date) ==
    IF chosen_itinerary.cities = <<>>
    THEN Failure("EmptyItinerary", "", "")
    ELSE resolve_flights(hl, chosen_itinerary, user_prefs, start_date, end_date,
             find_flights_for_trip(fl, user_prefs.origin_city,
                 chosen_itinerary.cities[1],
                 chosen_itinerary.cities[Len(chosen_itinerary.cities)],
                 start_date, end_date))

\* Lines 36-134: the error raised, or the selections and the costs.
resolve(fl, hl, chosen_itinerary, user_prefs) ==
    IF ~prefs_valid(user_prefs)
    THEN Failure("InvalidPreferences", "", "")
    ELSE IF user_prefs.trip_length_days = NotANumber
    THEN \* line 45: trip_length_days - 1 raises TypeError outside the try block
         Failure("TypeError", "", "")
    ELSE resolve_dates(fl, hl, chosen_itinerary, user_prefs,
             parse_date(user_prefs.start_date),
             parse_date(user_prefs.start_date) + (user_prefs.trip_length_days - 1))

---------------------------------------------------------------------------
(* booking_tools: the simulated payment and the ledger.                    *)

simulate_payment(total_price_idr, payment_info) ==
    [status |-> "success",
     transaction_id |-> "pay_uuid",
     charged_amount_idr |-> total_price_idr,
     card_last4 |-> payment_info.card_last4]

\* The ledger file when it holds no JSON list (cut short by a failed write):
\* _read_json gives the default, the empty list.  A missing file reads the
\* same and is the empty ledger.
Unreadable == <<[unreadable |-> TRUE]>>

load_bookings(file) == IF file = Unreadable THEN <<>> ELSE file

\* f"{n:04d}": the decimal digits of n, zero-padded to four.
RECURSIVE Digits(_)
Digits(n) == IF n < 10 THEN <<n>> ELSE Append(Digits(n \div 10), n % 10)

format_04d(n) ==
    LET d == Digits(n)
    IN  [i \in 1..(4 - Len(d)) |-> 0] \o d

\* An id counted from the records held, without the + 1.
booking_id_from_zero(bk) == [prefix |-> "BK-", digits |-> format_04d(Len(bk))]

booking_id_of(bk) == [prefix |-> "BK-", digits |-> format_04d(Len(bk) + 1)]

\* [x.get("id") for x in xs if x.get("id")]
ids_of(xs) ==
    LET kept == SelectSeq(xs, LAMBDA x : x.id # "")
    IN  [i \in DOMAIN kept |-> kept[i].id]

\* A text that counts the days on within January.
isoformat_without_months(day) == <<2025, 1, day + 21>>

\* _isoformat_safe of a date: its ISO text.
isoformat_safe(day) == isoformat(day)

booking_record(bk, country, cities, start_date, end_date, chosen_flights, chosen_hotels, total_price_idr, payment_info, payment_result) ==
    [booking_id |-> booking_id_of(bk),
     country |-> country,
     cities |-> cities,
     start_date |-> isoformat_safe(start_date),
     end_date |-> isoformat_safe(end_date),
     flight_ids |-> ids_of(chosen_flights),
     hotel_ids |-> ids_of(chosen_hotels),
     stays |-> [i \in DOMAIN chosen_hotels |->
                  [hotel_id |-> chosen_hotels[i].id,
                   city |-> chosen_hotels[i].city,
                   nights |-> chosen_hotels[i].nights,
                   stay_start_date |-> chosen_hotels[i].stay_start_date,
                   stay_end_date |-> chosen_hotels[i].stay_end_date,
                   category |-> chosen_hotels[i].category,
                   price_per_night_idr |-> chosen_hotels[i].price_per_night_idr]],
     flight_details |-> chosen_flights,
     total_price_idr |-> total_price_idr,
     payment_transaction_id |-> payment_result.transaction_id,
     card_last4 |-> payment_info.card_last4]

\* A decrement without the floor: remaining - 1 in place of max(0, ...).
decrement_unfloored(data, ids, quantity_field) ==
    [i \in DOMAIN data |->
        IF data[i].id \in Range(ids)
        THEN [data[i] EXCEPT ![quantity_field] = data[i][quantity_field] - 1]
        ELSE data[i]]

\* _decrement_inventory: every record whose id is among ids loses one unit of
\* quantity_field, floored at 0.
decrement_inventory(data, ids, quantity_field) ==
    [i \in DOMAIN data |->
        IF data[i].id \in Range(ids)
        THEN [data[i] EXCEPT ![quantity_field] =
                 IF data[i][quantity_field] - 1 > 0 THEN data[i][quantity_field] - 1 ELSE 0]
        ELSE data[i]]

---------------------------------------------------------------------------
(* book_itinerary as one step.                                             *)

\* A truthiness test in place of `is True`.
commits_if_truthy(payment_info) ==
    /\ ~payment_info.is_none
    /\ payment_info.auto_book_allowed \in {"True", "truthy"}

\* Line 136: payment_info is not None and auto_book_allowed is True.
commits(payment_info) ==
    /\ ~payment_info.is_none
    /\ payment_info.auto_book_allowed = "True"

\* Lines 137-156: the payment, the ledger append, the decrements.
Commit(r, record) ==
    /\ bookings' = Append(load_bookings(bookings), record)
    /\ flights' = decrement_inventory(flights, record.flight_ids, "seats_left")
    /\ hotels' = decrement_inventory(hotels, record.hotel_ids, "rooms_left")
    /\ result' = [status |-> "booked",
                  total_price_idr |-> r.total_price_idr,
                  budget_warning |-> r.budget_warning,
                  booking_record |-> record,
                  stay_plan |-> r.stay_plan,
                  cost_breakdown |-> r.cost_breakdown]

\* A preview that reports the total without the buffer.
SimulateWithoutBuffer(r) ==
    /\ result' = [status |-> "simulation_only",
                  total_price_idr |-> r.total_price_idr
                                      - r.cost_breakdown.buffer_activities_transport,
                  budget_warning |-> r.budget_warning,
                  proposed_flights |-> r.chosen_flights,
                  proposed_hotels |-> r.chosen_hotels,
                  stay_plan |-> r.stay_plan,
                  cost_breakdown |-> r.cost_breakdown]
    /\ UNCHANGED <<flights, hotels, bookings>>

\* Lines 158-166.
Simulate(r) ==
    /\ result' = [status |-> "simulation_only",
                  total_price_idr |-> r.total_price_idr,
                  budget_warning |-> r.budget_warning,
                  proposed_flights |-> r.chosen_flights,
                  proposed_hotels |-> r.chosen_hotels,
                  stay_plan |-> r.stay_plan,
                  cost_breakdown |-> r.cost_breakdown]
    /\ UNCHANGED <<flights, hotels, bookings>>

\* A return that has written a ledger record before the failure is raised.
ReturnAfterWriting(chosen_itinerary, payment_info, r) ==
    IF r.status = "error"
    THEN /\ result' = r
         /\ bookings' = IF commits(payment_info)
                        THEN Append(load_bookings(bookings),
                                    [booking_id |-> booking_id_of(load_bookings(bookings))])
                        ELSE bookings
         /\ UNCHANGED <<flights, hotels>>
    ELSE IF commits(payment_info)
    THEN Commit(r, booking_record(load_bookings(bookings),
                       chosen_itinerary.destination_country,
                       chosen_itinerary.cities, r.start_date, r.end_date,
                       r.chosen_flights, r.chosen_hotels, r.total_price_idr,
                       payment_info, simulate_payment(r.total_price_idr, payment_info)))
    ELSE Simulate(r)

Return(chosen_itinerary, payment_info, r) ==
    IF r.status = "error"
    THEN result' = r /\ UNCHANGED <<flights, hotels, bookings>>
    ELSE IF commits(payment_info)
    THEN Commit(r, booking_record(load_bookings(bookings),
                       chosen_itinerary.destination_country,
                       chosen_itinerary.cities, r.start_date, r.end_date,
                       r.chosen_flights, r.chosen_hotels, r.total_price_idr,
                       payment_info, simulate_payment(r.total_price_idr, payment_info)))
    ELSE Simulate(r)

\* One call of book_itinerary with the arguments the caller holds.
BookItinerary ==
    /\ Return(call.chosen_itinerary, call.payment_info,
              resolve(flights, hotels, call.chosen_itinerary, call.user_prefs))
    /\ UNCHANGED call

---------------------------------------------------------------------------
(* The data files and the arguments of the calls.                          *)

Flight(id, frm, to, day, price, seats) ==
    [id |-> id, from |-> frm, to |-> to, date |-> day,
     base_price_idr |-> price, seats_left |-> seats]

Hotel(id, city, country, category, price, rooms, af, at) ==
    [id |-> id, city |-> city, country |-> country, category |-> category,
     price_per_night_idr |-> price, rooms_left |-> rooms,
     available_from |-> af, available_to |-> at]

StartDay == 10

Styles == {"backpacker", "mid-range", "luxury"}

Cities == {"A", "B"}

RECURSIVE SeqsUpTo(_, _)
SeqsUpTo(S, n) ==
    IF n = 0 THEN {<<>>}
    ELSE {<<>>} \cup {<<x>> \o s : x \in S, s \in SeqsUpTo(S, n - 1)}

Itinerary(cs) == [destination_country |-> "X", cities |-> cs]

Prefs(style, budget, days) ==
    [origin_city |-> "O", travel_style |-> style, budget_idr |-> budget,
     trip_length_days |-> days, start_date |-> StartDay]

Without(rec, key) == [f \in (DOMAIN rec) \ {key} |-> rec[f]]

SomePrefs == Prefs("mid-range", 13, 2)

\* Preferences the try block rejects: a key is missing, or start_date is no
\* ISO date.
InvalidPrefs ==
    {Without(SomePrefs, k) : k \in PrefKeys} \cup {[SomePrefs EXCEPT !.start_date = BadText]}

\* Preferences with every key and a well-formed start_date whose trip length
\* or budget is no number.
IllTypedPrefs ==
    {[SomePrefs EXCEPT !.trip_length_days = NotANumber],
     [SomePrefs EXCEPT !.budget_idr = NotANumber]}

NoPayment == [is_none |-> TRUE, auto_book_allowed |-> "absent", card_last4 |-> ""]

\* A stored payment: auto_book_allowed is True, False, missing, or a value
\* that is truthy without being True.
Payment(auto) == [is_none |-> FALSE, auto_book_allowed |-> auto, card_last4 |-> "1111"]

NoResult == [status |-> "none"]

\* The caller's arguments.  The caller changes one of them at a time (every
\* combination is still reached); a result belongs to the arguments of its
\* call, so changing them forgets it.
SelectItinerary(it) ==
    /\ it # call.chosen_itinerary
    /\ call' = [call EXCEPT !.chosen_itinerary = it]
    /\ result' = NoResult
    /\ UNCHANGED <<flights, hotels, bookings>>

OneEdit(p, q) ==
    IF p \in InvalidPrefs \/ q \in InvalidPrefs THEN TRUE
    ELSE Cardinality({k \in PrefKeys : p[k] # q[k]}) = 1

SetPrefs(p) ==
    /\ OneEdit(call.user_prefs, p)
    /\ p # call.user_prefs
    /\ call' = [call EXCEPT !.user_prefs = p]
    /\ result' = NoResult
    /\ UNCHANGED <<flights, hotels, bookings>>

SetPayment(pay) ==
    /\ pay # call.payment_info
    /\ call' = [call EXCEPT !.payment_info = pay]
    /\ result' = NoResult
    /\ UNCHANGED <<flights, hotels, bookings>>

FirstCall(cs) ==
    [chosen_itinerary |-> Itinerary(cs), user_prefs |-> SomePrefs, payment_info |-> NoPayment]

---------------------------------------------------------------------------
(* Spec: calls of book_itinerary, previews and commits, on one catalog.    *)

InitialFlights ==
    << Flight("F1", "O", "A", 10, 7, 1),
       Flight("F2", "O", "A", 10, 5, 2),
       Flight("F3", "O", "B", 10, 6, 1),
       Flight("F4", "A", "O", 11, 4, 1) >>

InitialHotels ==
    << Hotel("H1", "A", "X", "luxury", 9, 1, 10, 12),
       Hotel("H2", "A", "X", "mid-range", 6, 1, 10, 12),
       Hotel("H3", "A", "X", "backpacker", 4, 1, 10, 11),
       Hotel("H4", "B", "X", "mid-range", 5, 1, 10, 11) >>

Itineraries == {Itinerary(cs) : cs \in SeqsUpTo(Cities, MaxCities)}

Budgets == {10, 13}

ValidPrefs == {Prefs(st, b, d) : st \in Styles, b \in Budgets, d \in 1..MaxDays}

Payments == {NoPayment} \cup {Payment(a) : a \in {"True", "False", "absent", "truthy"}}

Init ==
    /\ flights = InitialFlights
    /\ hotels = InitialHotels
    /\ bookings = <<>>
    /\ call = FirstCall(<<>>)
    /\ result = NoResult

Next ==
    \/ \E it \in Itineraries : SelectItinerary(it)
    \/ \E p \in ValidPrefs \cup InvalidPrefs \cup IllTypedPrefs : SetPrefs(p)
    \/ \E pay \in Payments : SetPayment(pay)
    \/ BookItinerary

Spec == Init /\ [][Next]_vars

---------------------------------------------------------------------------
(* SpecAlloc: _split_nights_across_cities on every list of city names and  *)
(* every number of days within the bounds.                                 *)

AllocCities == {"A", "B", "C", "D"}

SplitNights ==
    /\ result = NoResult
    /\ result' = [status |-> "nights",
                  nights |-> split_nights_across_cities(call.cities, call.total_days)]
    /\ UNCHANGED <<flights, hotels, bookings, call>>

InitAlloc ==
    /\ flights = <<>>
    /\ hotels = <<>>
    /\ bookings = <<>>
    /\ call \in {[cities |-> cs, total_days |-> d] :
                    cs \in SeqsUpTo(AllocCities, MaxAllocCities), d \in 1..MaxAllocDays}
    /\ result = NoResult

NextAlloc == SplitNights

SpecAlloc == InitAlloc /\ [][NextAlloc]_vars

---------------------------------------------------------------------------
(* SpecFlights: calls for the itinerary <<A>> on every catalog whose       *)
(* OutboundSlots first flights fly O -> A on a date, at a price and with a *)
(* seat count drawn from small sets.                                       *)

FlightIds == <<"F1", "F2", "F3", "F4", "F5">>

FlightDates == {10, 11, 13}

FlightPrices == {3, 5}

FixedFlights ==
    << Flight("X1", "O", "B", 10, 1, 1),
       Flight("X2", "O", "A", BadText, 1, 1),
       Flight("R1", "A", "O", 10, 4, 1),
       Flight("R2", "A", "O", BadText, 1, 1),
       Flight("R3", "a", "o", 14, 2, 1) >>

FlightCatalogs ==
    {[i \in 1..OutboundSlots |->
         Flight(FlightIds[i], "O", "A", c[i].date, c[i].price, c[i].seats)] \o FixedFlights :
        c \in [1..OutboundSlots -> [date : FlightDates, price : FlightPrices, seats : 0..1]]}

FlightsHotels == << Hotel("H1", "A", "X", "mid-range", 6, 3, 10, 14) >>

InitFlights ==
    /\ flights \in FlightCatalogs
    /\ hotels = FlightsHotels
    /\ bookings = <<>>
    /\ call = FirstCall(<<"A">>)
    /\ result = NoResult

NextFlights ==
    \/ \E p \in {Prefs("mid-range", 13, d) : d \in 1..MaxDays} : SetPrefs(p)
    \/ \E pay \in {NoPayment, Payment("True")} : SetPayment(pay)
    \/ BookItinerary

SpecFlights == InitFlights /\ [][NextFlights]_vars

---------------------------------------------------------------------------
(* SpecHotels: previews for the itineraries <<A>> and <<B, A>> on every    *)
(* catalog whose HotelSlots first hotels are hotels of A with a category,  *)
(* a price, a room count and a window drawn from a small set of offers    *)
(* (the hotel without rooms is a cheapest one with the longer window).     *)

HotelIds == <<"H1", "H2", "H3", "H4", "H5">>

\* <<price_per_night_idr, rooms_left, available_from, available_to>>
HotelOffers ==
    {<<3, 0, 10, 11>>, <<3, 1, 10, 10>>, <<3, 1, 10, 11>>, <<5, 1, 10, 10>>, <<5, 1, 10, 11>>}

FixedHotels ==
    << Hotel("HB", "B", "X", "mid-range", 4, 1, 10, 12),
       Hotel("HY", "A", "Y", "mid-range", 1, 1, 10, 12),
       Hotel("HT", "A", "X", "luxury", 1, 1, BadText, 12),
       Hotel("HU", "A", "X", "backpacker", 1, 1, 10, BadText) >>

HotelCatalogs ==
    {[i \in 1..HotelSlots |->
         Hotel(HotelIds[i], "A", "X", c[i].category, c[i].offer[1], c[i].offer[2],
               c[i].offer[3], c[i].offer[4])] \o FixedHotels :
        c \in [1..HotelSlots -> [category : Styles, offer : HotelOffers]]}

HotelsFlights ==
    << Flight("F1", "O", "A", 10, 5, 1),
       Flight("F2", "O", "B", 10, 6, 1),
       Flight("F3", "A", "O", 11, 4, 1) >>

InitHotels ==
    /\ flights = HotelsFlights
    /\ hotels \in HotelCatalogs
    /\ bookings = <<>>
    /\ call = FirstCall(<<"A">>)
    /\ result = NoResult

NextHotels ==
    \/ \E it \in {Itinerary(<<"A">>), Itinerary(<<"B", "A">>)} : SelectItinerary(it)
    \/ \E p \in {Prefs(st, 13, d) : st \in Styles, d \in 1..MaxDays} : SetPrefs(p)
    \/ BookItinerary

SpecHotels == InitHotels /\ [][NextHotels]_vars

---------------------------------------------------------------------------
(* SpecLedger: calls of create_booking, one after the other, with flights  *)
(* and hotels of every kind (known ids, an unknown id, no id, an id twice, *)
(* nothing left), on a ledger file that may be unreadable and a storage    *)
(* whose write of the ledger may fail.                                     *)

LedgerFlights ==
    << Flight("F1", "O", "A", 10, 5, 2),
       Flight("F2", "A", "O", 11, 4, 1),
       Flight("F3", "O", "A", 10, 3, 0) >>

LedgerHotels ==
    << Hotel("H1", "A", "X", "mid-range", 6, 2, 10, 12),
       Hotel("H2", "B", "X", "luxury", 9, 0, 10, 12) >>

LedgerCall(cities, start_date, end_date, fl, hl, total_price_idr) ==
    [country |-> "X", cities |-> cities, start_date |-> start_date, end_date |-> end_date,
     flights |-> fl, hotels |-> hl, total_price_idr |-> total_price_idr,
     payment_info |-> Payment("True"),
     payment_result |-> simulate_payment(total_price_idr, Payment("True"))]

LedgerCalls ==
    { LedgerCall(<<"A">>, 10, 11, <<LedgerFlights[1], LedgerFlights[2]>>,
                 <<hotel_copy(LedgerHotels[1], 2, 10, 11)>>, 25),
      LedgerCall(<<"B", "A">>, 10, 11, <<LedgerFlights[3], LedgerFlights[2]>>,
                 <<hotel_copy(LedgerHotels[2], 1, 10, 10),
                   hotel_copy(LedgerHotels[1], 1, 11, 11)>>, 26),
      LedgerCall(<<"A", "A">>, 11, 12, <<LedgerFlights[1], LedgerFlights[1]>>,
                 <<hotel_copy(LedgerHotels[1], 1, 11, 11),
                   hotel_copy(LedgerHotels[1], 1, 12, 12)>>, 0),
      LedgerCall(<<"A">>, 11, 11, <<Flight("F9", "O", "A", 11, 1, 1), Flight("", "A", "O", 11, 1, 1)>>,
                 <<>>, 2) }

\* A create_booking that writes its record alone in place of the list read.
CreateBookingOverwriting(a) ==
    /\ Len(load_bookings(bookings)) < MaxBookings
    /\ call' = a
    /\ result' = [status |-> "created",
                  booking_record |->
                      booking_record(load_bookings(bookings), a.country, a.cities,
                          a.start_date, a.end_date, a.flights, a.hotels,
                          a.total_price_idr, a.payment_info, a.payment_result)]
    /\ bookings' = <<result'.booking_record>>
    /\ flights' = decrement_inventory(flights, result'.booking_record.flight_ids, "seats_left")
    /\ hotels' = decrement_inventory(hotels, result'.booking_record.hotel_ids, "rooms_left")

\* create_booking when every write succeeds.
CreateBooking(a) ==
    /\ Len(load_bookings(bookings)) < MaxBookings
    /\ call' = a
    /\ result' = [status |-> "created",
                  booking_record |->
                      booking_record(load_bookings(bookings), a.country, a.cities,
                          a.start_date, a.end_date, a.flights, a.hotels,
                          a.total_price_idr, a.payment_info, a.payment_result)]
    /\ bookings' = Append(load_bookings(bookings), result'.booking_record)
    /\ flights' = decrement_inventory(flights, result'.booking_record.flight_ids, "seats_left")
    /\ hotels' = decrement_inventory(hotels, result'.booking_record.hotel_ids, "rooms_left")

\* create_booking when the write of the ledger raises: _write_json fails
\* before it opens the file, which keeps its content, or after open("w") has
\* cut it, which leaves no JSON list; the RuntimeError leaves create_booking
\* before the decrements.
CreateBookingWriteFails(a) ==
    /\ call' = a
    /\ result' = Failure("RuntimeError", "", "")
    /\ bookings' \in {bookings, Unreadable}
    /\ UNCHANGED <<flights, hotels>>

InitLedger ==
    /\ flights = LedgerFlights
    /\ hotels = LedgerHotels
    /\ bookings \in {<<>>, Unreadable}
    /\ call \in LedgerCalls
    /\ result = NoResult

NextLedger ==
    \/ \E a \in LedgerCalls : CreateBooking(a)
    \/ \E a \in LedgerCalls : CreateBookingWriteFails(a)

SpecLedger == InitLedger /\ [][NextLedger]_vars

---------------------------------------------------------------------------
(* SpecPartial: the calls of SpecLedger on a storage where the write of an *)
(* inventory file may fail as well.  A failed write leaves the file as it  *)
(* was (the file could not be opened) or without content that parses (it   *)
(* was opened for writing and the dump did not complete), which every      *)
(* reader of an inventory file takes for the empty list.                   *)

Truncated == <<>>

\* create_booking lines 85-141, then the write of line 82 for the flights
\* fails: the record is in the ledger, the hotels are not reached.
CreateBookingFlightsWriteFails(a) ==
    /\ Len(load_bookings(bookings)) < MaxBookings
    /\ \E i \in DOMAIN flights : flights[i].id \in {a.flights[j].id : j \in DOMAIN a.flights}
    /\ call' = a
    /\ result' = Failure("RuntimeError", "", "")
    /\ bookings' = Append(load_bookings(bookings),
                       booking_record(load_bookings(bookings), a.country, a.cities,
                           a.start_date, a.end_date, a.flights, a.hotels,
                           a.total_price_idr, a.payment_info, a.payment_result))
    /\ flights' \in {flights, Truncated}
    /\ UNCHANGED hotels

\* create_booking lines 85-143, then the write of line 82 for the hotels
\* fails: the record is in the ledger, the flights are lowered.
CreateBookingHotelsWriteFails(a) ==
    /\ Len(load_bookings(bookings)) < MaxBookings
    /\ \E i \in DOMAIN hotels : hotels[i].id \in {a.hotels[j].id : j \in DOMAIN a.hotels}
    /\ call' = a
    /\ result' = Failure("RuntimeError", "", "")
    /\ bookings' = Append(load_bookings(bookings),
                       booking_record(load_bookings(bookings), a.country, a.cities,
                           a.start_date, a.end_date, a.flights, a.hotels,
                           a.total_price_idr, a.payment_info, a.payment_result))
    /\ flights' = decrement_inventory(flights, bookings'[Len(bookings')].flight_ids,
                                      "seats_left")
    /\ hotels' \in {hotels, Truncated}

NextPartial ==
    \/ \E a \in LedgerCalls : CreateBooking(a)
    \/ \E a \in LedgerCalls : CreateBookingWriteFails(a)
    \/ \E a \in LedgerCalls : CreateBookingFlightsWriteFails(a)
    \/ \E a \in LedgerCalls : CreateBookingHotelsWriteFails(a)

SpecPartial == InitLedger /\ [][NextPartial]_vars

---------------------------------------------------------------------------
(* SpecSellOut: previews and commits for the itinerary <<A>>, one after    *)
(* the other, on a catalog with two flights for each leg and three hotels  *)
(* in A, until nothing is left to sell.                                    *)

SellOutFlights ==
    << Flight("F1", "O", "A", 10, 5, 1),
       Flight("F2", "O", "A", 10, 7, 2),
       Flight("F3", "A", "O", 11, 4, 2),
       Flight("F4", "A", "O", 11, 6, 1) >>

SellOutHotels ==
    << Hotel("H1", "A", "X", "mid-range", 6, 1, 10, 14),
       Hotel("H2", "A", "X", "mid-range", 8, 1, 10, 14),
       Hotel("H3", "A", "X", "backpacker", 4, 1, 10, 14) >>

InitSellOut ==
    /\ flights = SellOutFlights
    /\ hotels = SellOutHotels
    /\ bookings = <<>>
    /\ call = FirstCall(<<"A">>)
    /\ result = NoResult

NextSellOut ==
    \/ \E p \in {Prefs(st, 13, d) : st \in {"mid-range", "backpacker"}, d \in 1..MaxDays} :
          SetPrefs(p)
    \/ \E pay \in {NoPayment, Payment("True")} : SetPayment(pay)
    \/ BookItinerary

SpecSellOut == InitSellOut /\ [][NextSellOut]_vars

---------------------------------------------------------------------------
(* SpecFailures: calls of book_itinerary, with and without a payment that  *)
(* allows auto-booking, on a catalog where B has a mid-range hotel and A a *)
(* luxury hotel only and where no flight leaves B.                         *)

FailuresFlights ==
    << Flight("F1", "O", "A", 10, 5, 1),
       Flight("F2", "O", "B", 10, 6, 1),
       Flight("F3", "A", "O", 11, 4, 1) >>

FailuresHotels ==
    << Hotel("H1", "B", "X", "mid-range", 5, 1, 10, 12),
       Hotel("H2", "A", "X", "luxury", 9, 1, 10, 12) >>

InitFailures ==
    /\ flights = FailuresFlights
    /\ hotels = FailuresHotels
    /\ bookings = <<>>
    /\ call = FirstCall(<<>>)
    /\ result = NoResult

NextFailures ==
    \/ \E it \in Itineraries : SelectItinerary(it)
    \/ \E p \in ValidPrefs \cup InvalidPrefs \cup IllTypedPrefs : SetPrefs(p)
    \/ \E pay \in {NoPayment, Payment("True")} : SetPayment(pay)
    \/ BookItinerary

SpecFailures == InitFailures /\ [][NextFailures]_vars

---------------------------------------------------------------------------
(* SpecConfirm: the two calls of the application.  The preview calls       *)
(* book_itinerary without a payment; "Confirm booking now" calls it with   *)
(* the stored payment, when that is there and its auto_book_allowed is     *)
(* truthy, for the selection whose preview is shown.  Here payment_info of *)
(* call is the stored payment.                                             *)

\* app.py lines 270-296.
Preview ==
    /\ Return(call.chosen_itinerary, NoPayment,
              resolve(flights, hotels, call.chosen_itinerary, call.user_prefs))
    /\ UNCHANGED call

\* app.py lines 298-314.
Confirm ==
    /\ result.status = "simulation_only"
    /\ ~call.payment_info.is_none
    /\ call.payment_info.auto_book_allowed \in {"True", "truthy"}
    /\ Return(call.chosen_itinerary, call.payment_info,
              resolve(flights, hotels, call.chosen_itinerary, call.user_prefs))
    /\ UNCHANGED call

\* save_payment: the stored payment changes, the preview shown stays.
SavePayment(pay) ==
    /\ pay # call.payment_info
    /\ call' = [call EXCEPT !.payment_info = pay]
    /\ UNCHANGED <<flights, hotels, bookings, result>>

InitConfirm ==
    /\ flights = InitialFlights
    /\ hotels = InitialHotels
    /\ bookings = <<>>
    /\ call = FirstCall(<<>>)
    /\ result = NoResult

NextConfirm ==
    \/ \E it \in Itineraries : SelectItinerary(it)
    \/ \E p \in ValidPrefs : SetPrefs(p)
    \/ \E pay \in Payments : SavePayment(pay)
    \/ Preview
    \/ Confirm

SpecConfirm == InitConfirm /\ [][NextConfirm]_vars

---------------------------------------------------------------------------
(* SpecNearest: previews for the itinerary <<A>> on every catalog whose    *)
(* NearSlots first flights fly A -> O on dates around the return day, in   *)
(* an order that is not the order of their distance to it, each at a price *)
(* and with a seat count drawn from a small set, followed by one flight    *)
(* O -> A on the start day or after it, with or without a seat.            *)

NearDates == <<13, 11, 7, 9, 12, 8, 14, 6, 15, 5>>

NearOffers == {<<3, 1>>, <<5, 1>>, <<5, 0>>}

OutboundOffers == {<<10, 1>>, <<12, 1>>, <<10, 0>>}

NearCatalogs ==
    {[i \in 1..NearSlots |->
         Flight(FlightIds[1] \o ToString(i), "A", "O", NearDates[i], c[i][1], c[i][2])]
       \o << Flight("R2", "A", "O", BadText, 1, 1),
             Flight("X1", "O", "A", o[1], 5, o[2]) >> :
        c \in [1..NearSlots -> NearOffers], o \in OutboundOffers}

InitNearest ==
    /\ flights \in NearCatalogs
    /\ hotels = FlightsHotels
    /\ bookings = <<>>
    /\ call = FirstCall(<<"A">>)
    /\ result = NoResult

NextNearest ==
    \/ \E p \in {Prefs("mid-range", 13, d) : d \in 1..MaxDays} : SetPrefs(p)
    \/ BookItinerary

SpecNearest == InitNearest /\ [][NextNearest]_vars

---------------------------------------------------------------------------
(* SpecRace: two callers run book_itinerary with a payment that allows     *)
(* auto-booking at the same time, without mutual exclusion.  Each read and *)
(* each write of a file is a step of its own; call[p] holds the arguments  *)
(* of caller p, its position and what it has read, result[p] what its call *)
(* returned.                                                               *)

Callers == {1, 2}

RaceCall(cs) ==
    [pc |-> "resolve", chosen_itinerary |-> Itinerary(cs), user_prefs |-> SomePrefs,
     payment_info |-> Payment("True"), r |-> NoResult, bk |-> <<>>,
     record |-> NoResult, data |-> <<>>]

\* book_itinerary lines 36-134: the inventory is read, the selection made;
\* r is what was resolved.
Resolving(p, r) ==
    /\ call' = [call EXCEPT
                   ![p].r = r,
                   ![p].pc = IF r.status = "error" THEN "done" ELSE "read_ledger"]
    /\ result' = IF r.status = "error" THEN [result EXCEPT ![p] = r] ELSE result

Resolve(p) ==
    /\ call[p].pc = "resolve"
    /\ commits(call[p].payment_info)
    /\ Resolving(p, resolve(flights, hotels, call[p].chosen_itinerary, call[p].user_prefs))
    /\ UNCHANGED <<flights, hotels, bookings>>

\* create_booking lines 102-138: the ledger is read, the record built.
ReadLedger(p) ==
    /\ call[p].pc = "read_ledger"
    /\ call' = [call EXCEPT
                   ![p].pc = "write_ledger",
                   ![p].bk = load_bookings(bookings),
                   ![p].record =
                       booking_record(load_bookings(bookings),
                           call[p].chosen_itinerary.destination_country,
                           call[p].chosen_itinerary.cities,
                           call[p].r.start_date, call[p].r.end_date,
                           call[p].r.chosen_flights, call[p].r.chosen_hotels,
                           call[p].r.total_price_idr, call[p].payment_info,
                           simulate_payment(call[p].r.total_price_idr,
                                            call[p].payment_info))]
    /\ UNCHANGED <<flights, hotels, bookings, result>>

\* A write that appends to what the file holds at the time of the write.
WriteLedgerAppending(p) ==
    /\ call[p].pc = "write_ledger"
    /\ bookings' = Append(load_bookings(bookings), call[p].record)
    /\ call' = [call EXCEPT ![p].pc = "read_flights"]
    /\ UNCHANGED <<flights, hotels, result>>

\* create_booking lines 140-141: the list read, with the record, is written.
WriteLedger(p) ==
    /\ call[p].pc = "write_ledger"
    /\ bookings' = Append(call[p].bk, call[p].record)
    /\ call' = [call EXCEPT ![p].pc = "read_flights"]
    /\ UNCHANGED <<flights, hotels, result>>

\* _decrement_inventory line 72, for the flights.
ReadFlights(p) ==
    /\ call[p].pc = "read_flights"
    /\ call' = [call EXCEPT ![p].pc = "write_flights", ![p].data = flights]
    /\ UNCHANGED <<flights, hotels, bookings, result>>

\* _decrement_inventory lines 73-82: the list read is written back with the
\* booked flights lowered, when one was found.
WriteFlights(p) ==
    /\ call[p].pc = "write_flights"
    /\ flights' = IF \E i \in DOMAIN call[p].data :
                         call[p].data[i].id \in Range(call[p].record.flight_ids)
                  THEN decrement_inventory(call[p].data, call[p].record.flight_ids,
                                           "seats_left")
                  ELSE flights
    /\ call' = [call EXCEPT ![p].pc = "read_hotels"]
    /\ UNCHANGED <<hotels, bookings, result>>

ReadHotels(p) ==
    /\ call[p].pc = "read_hotels"
    /\ call' = [call EXCEPT ![p].pc = "write_hotels", ![p].data = hotels]
    /\ UNCHANGED <<flights, hotels, bookings, result>>

\* The hotels written back, then book_itinerary lines 149-156.
WriteHotels(p) ==
    /\ call[p].pc = "write_hotels"
    /\ hotels' = IF \E i \in DOMAIN call[p].data :
                        call[p].data[i].id \in Range(call[p].record.hotel_ids)
                 THEN decrement_inventory(call[p].data, call[p].record.hotel_ids,
                                          "rooms_left")
                 ELSE hotels
    /\ call' = [call EXCEPT ![p].pc = "done"]
    /\ result' = [result EXCEPT ![p] =
                     [status |-> "booked",
                      total_price_idr |-> call[p].r.total_price_idr,
                      budget_warning |-> call[p].r.budget_warning,
                      booking_record |-> call[p].record,
                      stay_plan |-> call[p].r.stay_plan,
                      cost_breakdown |-> call[p].r.cost_breakdown]]
    /\ UNCHANGED <<flights, bookings>>

InitRace ==
    /\ flights = InitialFlights
    /\ hotels = InitialHotels
    /\ bookings = <<>>
    /\ call \in [Callers -> {RaceCall(<<"A">>), RaceCall(<<"B", "A">>)}]
    /\ result = [p \in Callers |-> NoResult]

NextRace ==
    \E p \in Callers :
        \/ Resolve(p)
        \/ ReadLedger(p)
        \/ WriteLedger(p)
        \/ ReadFlights(p)
        \/ WriteFlights(p)
        \/ ReadHotels(p)
        \/ WriteHotels(p)

SpecRace == InitRace /\ [][NextRace]_vars

---------------------------------------------------------------------------
(* What a returned result says about the call.                             *)

Succeeded(r) == r.status \in {"simulation_only", "booked"}

\* The flights and the stays (hotel, nights, price) a successful result names.
FlightsOf(r) ==
    IF r.status = "booked" THEN r.booking_record.flight_details ELSE r.proposed_flights

StaysOf(r) ==
    IF r.status = "booked" THEN r.booking_record.stays
    ELSE [i \in DOMAIN r.proposed_hotels |->
             [hotel_id |-> r.proposed_hotels[i].id,
              city |-> r.proposed_hotels[i].city,
              nights |-> r.proposed_hotels[i].nights,
              stay_start_date |-> r.proposed_hotels[i].stay_start_date,
              stay_end_date |-> r.proposed_hotels[i].stay_end_date,
              category |-> r.proposed_hotels[i].category,
              price_per_night_idr |-> r.proposed_hotels[i].price_per_night_idr]]

\* date.fromisoformat of a well-formed text: the day it spells.
DayOf(text) == SumSeq([m \in 1..(text[2] - 1) |-> MonthLengths[m]]) + text[3] - 21

NightsOf(r) == SumSeq([i \in DOMAIN r.stay_plan |-> r.stay_plan[i].nights])

\* A step that is a call of book_itinerary that returned a result.
Returned == call' = call /\ Succeeded(result')

---------------------------------------------------------------------------
(* C1: for every successful book_itinerary call, the nights of the stays   *)
(* in the returned stay plan sum exactly to prefs.trip_length_days.        *)
C1_NightsSumToTripLength ==
    Succeeded(result) => NightsOf(result) = call.user_prefs.trip_length_days

---------------------------------------------------------------------------
(* The night allocator.                                                    *)

Distinct(cs) == \A i, j \in DOMAIN cs : i # j => cs[i] # cs[j]

Allocated == result.status = "nights" /\ call.cities # <<>> /\ Distinct(call.cities)

(* C2: for every ordered list of N >= 1 distinct city names and every      *)
(* total_days >= 1 the returned mapping contains every input city, its     *)
(* values sum exactly to total_days, and a city gets 0 nights only when    *)
(* N > total_days.                                                         *)
C2_AllocationSums ==
    Allocated =>
        /\ DOMAIN result.nights = Range(call.cities)
        /\ SumSeq([i \in DOMAIN call.cities |-> result.nights[call.cities[i]]])
               = call.total_days
        /\ (\E c \in Range(call.cities) : result.nights[c] = 0)
               => Len(call.cities) > call.total_days

\* More cities than days: the last city is allotted no night.
C2_Witness ==
    /\ Allocated
    /\ Len(call.cities) = 3
    /\ call.total_days = 2
    /\ result.nights[call.cities[3]] = 0

(* C3: the first (total_days mod N) cities in input order receive exactly  *)
(* (total_days div N) + 1 nights and every remaining city exactly          *)
(* (total_days div N) nights.                                              *)
C3_RemainderToFirstCities ==
    Allocated =>
        \A i \in DOMAIN call.cities :
            result.nights[call.cities[i]] =
                (call.total_days \div Len(call.cities))
                + (IF i <= call.total_days % Len(call.cities) THEN 1 ELSE 0)

\* 5 days over 3 cities: 2, 2, 1.
C3_Witness ==
    /\ Allocated
    /\ Len(call.cities) = 3
    /\ call.total_days = 5
    /\ result.nights[call.cities[1]] = 2
    /\ result.nights[call.cities[2]] = 2
    /\ result.nights[call.cities[3]] = 1

---------------------------------------------------------------------------
(* The flight of a leg.  A leg is a route and a desired day: the outbound  *)
(* leg origin -> first city on start_date, the return leg last city ->     *)
(* origin on end_date.  Names compare without regard to case.              *)

Legs(c) ==
    LET cs == c.chosen_itinerary.cities
        p == c.user_prefs
    IN  << [from |-> p.origin_city, to |-> cs[1], day |-> p.start_date],
           [from |-> cs[Len(cs)], to |-> p.origin_city,
            day |-> p.start_date + (p.trip_length_days - 1)] >>

Flies(f, leg) == Lower(f.from) = Lower(leg.from) /\ Lower(f.to) = Lower(leg.to)

\* The catalog positions of the seat-available flights of the leg on its day.
ExactAt(fl, leg) ==
    {i \in DOMAIN fl : Flies(fl[i], leg) /\ fl[i].seats_left > 0 /\ fl[i].date = leg.day}

\* ... and of its seat-available flights with a well-formed date.
DatedAt(fl, leg) ==
    {i \in DOMAIN fl : Flies(fl[i], leg) /\ fl[i].seats_left > 0 /\ fl[i].date >= 0}

Away(f, leg) == Abs(f.date - leg.day)

(* C4: when a flight of the route has the exact desired date and a seat,   *)
(* the flight chosen for the leg is an exact-date, seat-available flight   *)
(* of the route with the minimum base price, the first of them in catalog  *)
(* order among equal prices; a flight without seats is never chosen.       *)
C4_CheapestExactFlight ==
    [][Returned =>
        \A k \in 1..2 :
            LET leg == Legs(call)[k]
                chosen == FlightsOf(result')[k]
            IN  /\ chosen.seats_left > 0
                /\ ExactAt(flights, leg) # {} =>
                      \E i \in ExactAt(flights, leg) :
                          /\ chosen = flights[i]
                          /\ \A j \in ExactAt(flights, leg) :
                                /\ flights[i].base_price_idr <= flights[j].base_price_idr
                                /\ flights[i].base_price_idr = flights[j].base_price_idr
                                      => i <= j
    ]_vars

\* A preview whose outbound leg had two exact-date flights with seats at the
\* same price: the earlier one is proposed.
C4_Witness ==
    /\ result.status = "simulation_only"
    /\ \E i, j \in ExactAt(flights, Legs(call)[1]) :
          /\ i < j
          /\ flights[i].base_price_idr = flights[j].base_price_idr
          /\ result.proposed_flights[1] = flights[i]

(* C5, as claimed: when no seat-available flight of the route has the      *)
(* desired date, the flight selected for the leg is a seat-available       *)
(* flight of the route whose date has the smallest absolute day difference *)
(* from the desired date, whatever the prices.                             *)
C5_NearestDateSelected ==
    [][Returned =>
        \A k \in 1..2 :
            LET leg == Legs(call)[k]
                chosen == FlightsOf(result')[k]
            IN  ExactAt(flights, leg) = {} =>
                    \E i \in DatedAt(flights, leg) :
                        /\ chosen = flights[i]
                        /\ \A j \in DatedAt(flights, leg) :
                              Away(flights[i], leg) <= Away(flights[j], leg)
    ]_vars

\* i comes before j in the order of the fallback: nearer first, equal
\* distances in catalog order.
Nearer(fl, leg, i, j) ==
    \/ Away(fl[i], leg) < Away(fl[j], leg)
    \/ Away(fl[i], leg) = Away(fl[j], leg) /\ i < j

NearestAt(fl, leg) ==
    {i \in DatedAt(fl, leg) :
        Cardinality({j \in DatedAt(fl, leg) : Nearer(fl, leg, j, i)}) < NearestLimit}

(* C5, amended: when no seat-available flight of the route has the desired *)
(* date, the flight selected is the cheapest of the (at most 5)            *)
(* seat-available flights of the route nearest to the desired date, and    *)
(* among equal prices the nearest one; a farther candidate that is         *)
(* strictly cheaper is preferred to the nearest one.                       *)
C5_CheapestOfNearest ==
    [][Returned =>
        \A k \in 1..2 :
            LET leg == Legs(call)[k]
                chosen == FlightsOf(result')[k]
            IN  ExactAt(flights, leg) = {} =>
                    \E i \in NearestAt(flights, leg) :
                        /\ chosen = flights[i]
                        /\ \A j \in NearestAt(flights, leg) \ {i} :
                              \/ flights[i].base_price_idr < flights[j].base_price_idr
                              \/ /\ flights[i].base_price_idr = flights[j].base_price_idr
                                 /\ Nearer(flights, leg, i, j)
    ]_vars

\* A preview whose outbound leg had no exact-date flight, a candidate 1 day
\* away and a cheaper one 3 days away: the one 3 days away is proposed.
C5_Witness ==
    /\ result.status = "simulation_only"
    /\ ExactAt(flights, Legs(call)[1]) = {}
    /\ \E i, j \in DatedAt(flights, Legs(call)[1]) :
          /\ Away(flights[i], Legs(call)[1]) = 1
          /\ Away(flights[j], Legs(call)[1]) = 3
          /\ flights[j].base_price_idr < flights[i].base_price_idr
          /\ result.proposed_flights[1] = flights[j]

---------------------------------------------------------------------------
(* The hotel of a stay.  For a list of distinct cities the k-th city is    *)
(* allotted NightsAt(k) nights and its stay starts StartAt(k).             *)

NightsAt(c, k) ==
    LET cs == c.chosen_itinerary.cities
        d == c.user_prefs.trip_length_days
    IN  (d \div Len(cs)) + (IF k <= d % Len(cs) THEN 1 ELSE 0)

StartAt(c, k) ==
    c.user_prefs.start_date + SumSeq([j \in 1..(k - 1) |-> NightsAt(c, j)])

EndAt(c, k) == StartAt(c, k) + NightsAt(c, k) - 1

\* The cities that get a stay, and the position of the k-th city's stay
\* among the stays.
Visited(c) == {k \in DOMAIN c.chosen_itinerary.cities : NightsAt(c, k) > 0}

StayIndex(c, k) == Cardinality({j \in Visited(c) : j <= k})

Downgrade(style) ==
    IF style = "luxury" THEN "mid-range"
    ELSE IF style = "mid-range" THEN "backpacker" ELSE ""

\* The catalog positions of the hotels of a city and country with the given
\* category, a room left and a window holding the days from and to.
MatchesAt(hl, city, country, style, from, to) ==
    {i \in DOMAIN hl :
        /\ Lower(hl[i].city) = Lower(city)
        /\ Lower(hl[i].country) = Lower(country)
        /\ Lower(hl[i].category) = Lower(style)
        /\ hl[i].rooms_left > 0
        /\ hl[i].available_from >= 0
        /\ hl[i].available_to >= 0
        /\ hl[i].available_from <= from /\ from <= hl[i].available_to
        /\ hl[i].available_from <= to /\ to <= hl[i].available_to}

MatchesOfCity(hl, c, k, style) ==
    MatchesAt(hl, c.chosen_itinerary.cities[k], c.chosen_itinerary.destination_country,
              style, StartAt(c, k), EndAt(c, k))

\* The style whose matches the k-th city's hotel is taken from: the
\* requested one, else its downgrade after one retry, else none.
StyleUsed(hl, c, k) ==
    LET style == c.user_prefs.travel_style
    IN  IF MatchesOfCity(hl, c, k, style) # {} THEN style
        ELSE IF Downgrade(style) # "" /\ MatchesOfCity(hl, c, k, Downgrade(style)) # {}
             THEN Downgrade(style)
             ELSE ""

\* A step that is a call of book_itinerary that got past the flights.
ReachedHotels ==
    /\ call' = call
    /\ \/ Succeeded(result')
       \/ result'.status = "error" /\ result'.error = "NoHotelsAvailable"

(* C6: for each city with nights > 0, if no hotel matches the requested    *)
(* style the resolver retries exactly once with the downgraded style       *)
(* (luxury -> mid-range, mid-range -> backpacker) and selects from those   *)
(* matches; a backpacker request gets no retry, a luxury request never     *)
(* falls through to a backpacker hotel, and if the retry also finds        *)
(* nothing the call fails with NoHotelsAvailable naming the city and the   *)
(* originally requested style.                                             *)
C6_StyleDowngrade ==
    [][ReachedHotels =>
        LET unserved == {k \in Visited(call) : StyleUsed(hotels, call, k) = ""}
        IN  IF unserved = {}
            THEN /\ Succeeded(result')
                 /\ Len(StaysOf(result')) = Cardinality(Visited(call))
                 /\ \A k \in Visited(call) :
                       LET stay == StaysOf(result')[StayIndex(call, k)]
                       IN  /\ Lower(stay.category) = StyleUsed(hotels, call, k)
                           /\ \E i \in MatchesOfCity(hotels, call, k,
                                                     StyleUsed(hotels, call, k)) :
                                 hotels[i].id = stay.hotel_id
            ELSE LET first == CHOOSE k \in unserved : \A j \in unserved : k <= j
                 IN  result' = Failure("NoHotelsAvailable",
                                       call.chosen_itinerary.cities[first],
                                       call.user_prefs.travel_style)
    ]_vars

\* A luxury preview of a city without a luxury match: the stay is in a
\* mid-range hotel.
C6_Witness ==
    /\ result.status = "simulation_only"
    /\ call.user_prefs.travel_style = "luxury"
    /\ \E k \in Visited(call) :
          /\ MatchesOfCity(hotels, call, k, "luxury") = {}
          /\ result.proposed_hotels[StayIndex(call, k)].category = "mid-range"

\* A luxury request that fails although a backpacker hotel matches.
C6_WitnessNoFallThrough ==
    /\ result = Failure("NoHotelsAvailable", "A", "luxury")
    /\ \E k \in Visited(call) : MatchesOfCity(hotels, call, k, "backpacker") # {}

(* C7: every hotel selected for a city is located in that city and in the  *)
(* itinerary's destination country, has rooms_left > 0, has the requested  *)
(* style or its single downgrade as category, and has an availability      *)
(* window that contains the stay start and the stay end date; among all    *)
(* such matches of the style that was used it has the minimum price per    *)
(* night, ties broken by catalog order.                                    *)
C7_SelectedHotel ==
    [][Returned =>
        \A k \in Visited(call) :
            LET stay == StaysOf(result')[StayIndex(call, k)]
                matches == MatchesAt(hotels, call.chosen_itinerary.cities[k],
                                     call.chosen_itinerary.destination_country,
                                     stay.category, DayOf(stay.stay_start_date),
                                     DayOf(stay.stay_end_date))
            IN  /\ Lower(stay.category) \in
                      {call.user_prefs.travel_style, Downgrade(call.user_prefs.travel_style)}
                /\ \E i \in matches :
                      /\ hotels[i].id = stay.hotel_id
                      /\ hotels[i].price_per_night_idr = stay.price_per_night_idr
                      /\ \A j \in matches :
                            /\ hotels[i].price_per_night_idr <= hotels[j].price_per_night_idr
                            /\ hotels[i].price_per_night_idr = hotels[j].price_per_night_idr
                                  => i <= j
    ]_vars

\* A preview of a city with a dearer match before a cheaper one: the cheaper,
\* later one is proposed.
C7_Witness ==
    /\ result.status = "simulation_only"
    /\ \E k \in Visited(call) :
          \E i, j \in MatchesOfCity(hotels, call, k, call.user_prefs.travel_style) :
              /\ i < j
              /\ hotels[j].price_per_night_idr < hotels[i].price_per_night_idr
              /\ result.proposed_hotels[StayIndex(call, k)].id = hotels[j].id

(* C8: for every successful resolution the cost breakdown has              *)
(* total_flights = outbound price + return price, accommodation = the sum  *)
(* over the selected hotels of price per night times nights, buffer =      *)
(* floor((total_flights + accommodation) * 0.2), and grand_total =         *)
(* total_flights + accommodation + buffer = total_price_idr.               *)
C8_CostBreakdown ==
    Succeeded(result) =>
        LET cb == result.cost_breakdown
            fs == FlightsOf(result)
            st == StaysOf(result)
        IN  /\ cb.outbound_flight = fs[1].base_price_idr
            /\ cb.return_flight = fs[2].base_price_idr
            /\ cb.total_flights = fs[1].base_price_idr + fs[2].base_price_idr
            /\ cb.accommodation =
                   SumSeq([i \in DOMAIN st |-> st[i].price_per_night_idr * st[i].nights])
            /\ 5 * cb.buffer_activities_transport <= cb.total_flights + cb.accommodation
            /\ cb.total_flights + cb.accommodation < 5 * cb.buffer_activities_transport + 5
            /\ cb.grand_total =
                   cb.total_flights + cb.accommodation + cb.buffer_activities_transport
            /\ cb.grand_total = result.total_price_idr

\* A booking of two stays whose base cost is no multiple of 5.
C8_Witness ==
    /\ result.status = "booked"
    /\ Len(result.booking_record.stays) = 2
    /\ (result.cost_breakdown.total_flights + result.cost_breakdown.accommodation) % 5 # 0

(* C9: for every successful resolution with a positive integer budget,     *)
(* budget_warning is true exactly when total_price_idr > floor(budget *    *)
(* 1.2), in the simulation_only and in the booked result.                  *)
C9_BudgetWarning ==
    (Succeeded(result) /\ call.user_prefs.budget_idr > 0) =>
        (result.budget_warning <=>
            10 * result.total_price_idr > 12 * call.user_prefs.budget_idr)

\* total 15 against budget 13: floor(15.6) = 15 is not exceeded, in a booked
\* result; against budget 10 the flag is set.
C9_Witness ==
    /\ result.status = "booked"
    /\ result.total_price_idr = 15
    /\ call.user_prefs.budget_idr = 13
    /\ ~result.budget_warning

C9_WitnessWarned ==
    /\ result.status = "simulation_only"
    /\ result.total_price_idr = 15
    /\ call.user_prefs.budget_idr = 10
    /\ result.budget_warning

(* C10: book_itinerary commits (simulates the payment, appends exactly one *)
(* ledger record, decrements the inventory, returns 'booked') if and only  *)
(* if payment_info is not None and auto_book_allowed is True; otherwise it *)
(* returns 'simulation_only' with the same total, budget flag and cost     *)
(* breakdown and leaves the ledger, the seats and the rooms unchanged.     *)
C10_CommitIffAutoBook ==
    [][Returned =>
        LET pay == call.payment_info
            r == resolve(flights, hotels, call.chosen_itinerary, call.user_prefs)
        IN  /\ result'.total_price_idr = r.total_price_idr
            /\ result'.budget_warning = r.budget_warning
            /\ result'.cost_breakdown = r.cost_breakdown
            /\ IF ~pay.is_none /\ pay.auto_book_allowed = "True"
               THEN /\ result'.status = "booked"
                    /\ bookings' = Append(bookings, result'.booking_record)
                    /\ result'.booking_record.payment_transaction_id = "pay_uuid"
                    /\ result'.booking_record.card_last4 = pay.card_last4
                    /\ \A i \in DOMAIN flights :
                          flights[i].id \in Range(result'.booking_record.flight_ids)
                              => flights'[i].seats_left = flights[i].seats_left - 1
                    /\ \A i \in DOMAIN hotels :
                          hotels[i].id \in Range(result'.booking_record.hotel_ids)
                              => hotels'[i].rooms_left = hotels[i].rooms_left - 1
               ELSE /\ result'.status = "simulation_only"
                    /\ UNCHANGED <<flights, hotels, bookings>>
    ]_vars

C10_Witness ==
    /\ result.status = "booked"
    /\ call.payment_info.auto_book_allowed = "True"
    /\ Len(bookings) = 1
    /\ bookings[1] = result.booking_record

---------------------------------------------------------------------------
(* The ledger and the inventory under create_booking.                      *)

\* A step that is a call of create_booking that returned its record.
Created == result'.status = "created" /\ bookings' # bookings

\* The ids create_booking books: those of the records passed that have one.
BookedIds(xs) == {xs[i].id : i \in DOMAIN xs} \ {""}

Lowered(n) == IF n > 0 THEN n - 1 ELSE 0

(* C11: each create_booking call lowers seats_left of every booked flight  *)
(* id and rooms_left of every booked hotel id by exactly 1 when the value  *)
(* was > 0 and leaves it at 0 when it was 0 (other records are untouched); *)
(* after any sequence of commits every seats_left and rooms_left is >= 0,  *)
(* and successive commits of the same ids lower each by 1 each time.       *)
C11_DecrementFlooredAtZero ==
    [][Created =>
        /\ \A i \in DOMAIN flights :
              /\ flights'[i].seats_left >= 0
              /\ flights'[i] =
                    IF flights[i].id \in BookedIds(call'.flights)
                    THEN [flights[i] EXCEPT !.seats_left = Lowered(flights[i].seats_left)]
                    ELSE flights[i]
        /\ \A i \in DOMAIN hotels :
              /\ hotels'[i].rooms_left >= 0
              /\ hotels'[i] =
                    IF hotels[i].id \in BookedIds(call'.hotels)
                    THEN [hotels[i] EXCEPT !.rooms_left = Lowered(hotels[i].rooms_left)]
                    ELSE hotels[i]
    ]_vars

\* Three commits of flight F1, which had 2 seats, and of hotel H1, which had
\* 2 rooms: 2 -> 1 -> 0 -> 0.
C11_Witness ==
    /\ result.status = "created"
    /\ Len(bookings) = 3
    /\ \A i \in 1..3 : "F1" \in Range(bookings[i].flight_ids)
                       /\ "H1" \in Range(bookings[i].hotel_ids)
    /\ flights[1].seats_left = 0
    /\ hotels[1].rooms_left = 0

\* 'BK-' followed by n zero-padded to 4 digits, for n below 10000.
IdText(n) ==
    [prefix |-> "BK-",
     digits |-> <<n \div 1000, (n \div 100) % 10, (n \div 10) % 10, n % 10>>]

(* C12: with a single writer, a commit made when the ledger holds n        *)
(* records produces the booking id 'BK-' followed by n + 1 zero-padded to  *)
(* 4 digits; hence after any sequence of sequential commits starting from  *)
(* an empty ledger the i-th record has id BK-000i and the booking ids of   *)
(* the ledger are pairwise distinct.                                       *)
C12_SequentialBookingIds ==
    [][Created =>
        /\ result'.booking_record.booking_id = IdText(Len(load_bookings(bookings)) + 1)
        /\ \A i \in DOMAIN bookings' : bookings'[i].booking_id = IdText(i)
        /\ \A i, j \in DOMAIN bookings' :
              i # j => bookings'[i].booking_id # bookings'[j].booking_id
    ]_vars

\* The third commit: BK-0003 after BK-0001 and BK-0002.
C12_Witness ==
    /\ result.status = "created"
    /\ Len(bookings) = 3
    /\ bookings[1].booking_id.digits = <<0, 0, 0, 1>>
    /\ bookings[2].booking_id.digits = <<0, 0, 0, 2>>
    /\ result.booking_record.booking_id.digits = <<0, 0, 0, 3>>

(* C13: the ledger is append-only: every successful commit increases the   *)
(* number of persisted records by exactly 1, the new record is last, and   *)
(* every record persisted before the commit is still present afterwards,   *)
(* unchanged and in the same position, whatever the backing store the      *)
(* commit read (a list of records, or a file that holds none).             *)
C13_AppendOnly ==
    [][Created =>
        /\ bookings' # Unreadable
        /\ Len(bookings') = Len(load_bookings(bookings)) + 1
        /\ bookings'[Len(bookings')] = result'.booking_record
        /\ \A i \in DOMAIN load_bookings(bookings) : bookings'[i] = bookings[i]
    ]_vars

\* A second, different record appended after the first.
C13_Witness ==
    /\ result.status = "created"
    /\ Len(bookings) = 2
    /\ bookings[2] = result.booking_record
    /\ bookings[1].cities # bookings[2].cities

(* C17, as claimed: if the write of the bookings ledger fails during a     *)
(* commit, create_booking surfaces an error to the caller, the ledger      *)
(* keeps its previous content and neither seats_left nor rooms_left of any *)
(* inventory record is decremented.                                        *)
C17_FailedWriteKeepsLedger ==
    [][(result'.status = "error" /\ result'.error = "RuntimeError") =>
        /\ load_bookings(bookings') = load_bookings(bookings)
        /\ UNCHANGED <<flights, hotels>>
    ]_vars

\* An ISO text names a month and a day of that month.
WellFormed(text) ==
    /\ Len(text) = 3
    /\ text[2] \in DOMAIN MonthLengths
    /\ text[3] \in 1..MonthLengths[text[2]]

(* C14: the record persisted (and returned) by create_booking has cities   *)
(* equal to the city sequence passed in (same order), start_date and       *)
(* end_date equal to the ISO form of the dates passed in, and              *)
(* total_price_idr equal to the total passed in; when the commit comes     *)
(* from book_itinerary, end_date = start_date + (trip_length_days - 1) and *)
(* total_price_idr equals the grand_total of the returned cost breakdown.  *)
C14_RecordRoundTrip ==
    [][(call' = call /\ result'.status = "booked") =>
        LET record == result'.booking_record
        IN  /\ bookings'[Len(bookings')] = record
            /\ record.cities = call.chosen_itinerary.cities
            /\ WellFormed(record.start_date)
            /\ WellFormed(record.end_date)
            /\ DayOf(record.start_date) = parse_date(call.user_prefs.start_date)
            /\ DayOf(record.end_date) =
                   DayOf(record.start_date) + (call.user_prefs.trip_length_days - 1)
            /\ record.total_price_idr = result'.total_price_idr
            /\ record.total_price_idr = result'.cost_breakdown.grand_total
    ]_vars

\* A booking of B then A for 2 days from day 10: 31 January to 1 February.
C14_Witness ==
    /\ result.status = "booked"
    /\ result.booking_record.cities = <<"B", "A">>
    /\ result.booking_record.start_date = <<2025, 1, 31>>
    /\ result.booking_record.end_date = <<2025, 2, 1>>
    /\ bookings = <<result.booking_record>>

---------------------------------------------------------------------------
(* The failures of book_itinerary.                                         *)

\* Every required field is there, start_date is an ISO date, the trip length
\* and the budget are numbers.
WellTyped(p) ==
    IF PrefKeys \subseteq DOMAIN p
    THEN /\ p.start_date >= 0
         /\ p.trip_length_days # NotANumber
         /\ p.budget_idr # NotANumber
    ELSE FALSE

(* C16, as claimed: if any required preference field (origin city, travel  *)
(* style, budget, trip length in days, start date) is missing or is not    *)
(* well-typed or well-formed, book_itinerary fails with the                *)
(* InvalidPreferences error and with no other kind of failure.             *)
C16_InvalidPreferencesOnly ==
    [][(call' = call /\ ~WellTyped(call.user_prefs)) =>
        result' = Failure("InvalidPreferences", "", "")
    ]_vars

\* The inputs on which book_itinerary raises before line 136: preferences
\* it cannot use, no city, a leg without a seat-available dated flight, a
\* visited city (of distinct cities) without a hotel of the style or of its
\* downgrade.
MustFail ==
    IF ~WellTyped(call.user_prefs) \/ call.chosen_itinerary.cities = <<>> THEN TRUE
    ELSE \/ \E k \in 1..2 : DatedAt(flights, Legs(call)[k]) = {}
         \/ /\ Distinct(call.chosen_itinerary.cities)
            /\ \E k \in Visited(call) : StyleUsed(hotels, call, k) = ""

(* C15: whenever book_itinerary fails (invalid preferences, empty          *)
(* itinerary, no flights, no hotels for some city) it returns no result at *)
(* all (neither simulation_only nor booked), no payment is simulated, no   *)
(* ledger record is appended and no seat or room count changes, even when  *)
(* payment_info allows auto-booking and earlier cities already had hotels  *)
(* selected.                                                               *)
C15_FailureLeavesNoEffect ==
    [][call' = call =>
        /\ MustFail => result'.status = "error"
        /\ result'.status = "error" =>
              /\ DOMAIN result' = {"status", "error", "city", "style"}
              /\ UNCHANGED <<flights, hotels, bookings>>
    ]_vars

\* A mid-range trip to B then A with a payment that allows auto-booking: B
\* has its hotel, A has none, the call fails and nothing was written.
C15_Witness ==
    /\ result = Failure("NoHotelsAvailable", "A", "mid-range")
    /\ call.chosen_itinerary.cities = <<"B", "A">>
    /\ call.payment_info = Payment("True")
    /\ StyleUsed(hotels, call, 1) = "mid-range"
    /\ bookings = <<>>
    /\ flights = FailuresFlights
    /\ hotels = FailuresHotels

---------------------------------------------------------------------------
---------------------------------------------------------------------------
(* Commits that interleave.                                                *)

BothBooked == \A p \in Callers : result[p].status = "booked"

(* C19: without mutual exclusion two commits whose read and write steps    *)
(* interleave reach a bad state.  When both have read the same ledger      *)
(* length their records carry the same booking id and the record written   *)
(* first is overwritten by the other (the ledger grows by one record for   *)
(* two bookings); the witnesses are the states where this has happened and *)
(* where both have booked the last seat of a flight.                       *)
C19_InterleavedCommitsCollide ==
    BothBooked =>
        /\ (Len(call[1].bk) = Len(call[2].bk))
              <=> (result[1].booking_record.booking_id
                      = result[2].booking_record.booking_id)
        /\ Len(call[1].bk) = Len(call[2].bk) =>
              /\ Len(bookings) = Len(call[1].bk) + 1
              /\ bookings[Len(bookings)] \in
                     {result[1].booking_record, result[2].booking_record}
        /\ Len(call[1].bk) # Len(call[2].bk) => Len(bookings) = 2

\* Both callers hold a booking BK-0001, the ledger holds one record, and
\* both bookings are on flight F4, which had one seat.
C19_Witness ==
    /\ BothBooked
    /\ result[1].booking_record.booking_id = IdText(1)
    /\ result[2].booking_record.booking_id = IdText(1)
    /\ Len(bookings) = 1
    /\ InitialFlights[4].seats_left = 1
    /\ \A p \in Callers : "F4" \in Range(result[p].booking_record.flight_ids)
    /\ flights[4].seats_left = 0

\* Both records are in the ledger, with different ids, and both are on
\* flight F4 and in hotel H2, which had one seat and one room.
C19_WitnessOversold ==
    /\ BothBooked
    /\ Len(bookings) = 2
    /\ bookings[1].booking_id # bookings[2].booking_id
    /\ \A i \in 1..2 : "F4" \in Range(bookings[i].flight_ids)
                       /\ "H2" \in Range(bookings[i].hotel_ids)
    /\ InitialHotels[2].rooms_left = 1

---------------------------------------------------------------------------
(* The fallback of a leg.                                                  *)

\* The position of flight i in the order of the fallback.
RankAt(fl, leg, i) == Cardinality({j \in DatedAt(fl, leg) : Nearer(fl, leg, j, i)}) + 1

\* The flights a leg chooses from: its exact-date flights when it has one,
\* else its candidates of rank 1 to 5.
OptionsAt(fl, leg) ==
    IF ExactAt(fl, leg) # {} THEN ExactAt(fl, leg)
    ELSE {i \in DatedAt(fl, leg) : RankAt(fl, leg, i) <= 5}

(* C20: each leg falls back on its own, and only when it has no exact-date *)
(* flight with a seat; its candidates are then the at most 5 flights of    *)
(* the route with a seat and a parseable date that come first when ordered *)
(* by absolute day difference to the desired date, equal differences in    *)
(* catalog order; the flight chosen is the cheapest candidate, the first   *)
(* in that order among equal prices; when a leg has neither an exact-date  *)
(* flight nor a candidate the call fails with NoFlightsAvailable.          *)
C20_FallbackPerLegCheapestOfFive ==
    [][call' = call =>
        IF \E k \in 1..2 : OptionsAt(flights, Legs(call)[k]) = {}
        THEN /\ result'.status = "error"
             /\ result'.error = "NoFlightsAvailable"
        ELSE /\ Succeeded(result')
             /\ \A k \in 1..2 :
                   LET leg == Legs(call)[k]
                       chosen == FlightsOf(result')[k]
                   IN  /\ ExactAt(flights, leg) # {} => chosen.date = leg.day
                       /\ ExactAt(flights, leg) = {} =>
                             \E i \in OptionsAt(flights, leg) :
                                 /\ chosen = flights[i]
                                 /\ \A j \in OptionsAt(flights, leg) :
                                       /\ flights[i].base_price_idr
                                             <= flights[j].base_price_idr
                                       /\ flights[i].base_price_idr
                                             = flights[j].base_price_idr
                                          => RankAt(flights, leg, i)
                                                <= RankAt(flights, leg, j)
    ]_vars

\* A preview whose outbound leg had an exact-date flight and whose return
\* leg had none and six candidates, the sixth in the order strictly cheaper
\* than the five before it: a flight of rank 1 to 5 is proposed.
C20_Witness ==
    /\ result.status = "simulation_only"
    /\ ExactAt(flights, Legs(call)[1]) # {}
    /\ ExactAt(flights, Legs(call)[2]) = {}
    /\ \E j \in DatedAt(flights, Legs(call)[2]) :
          /\ RankAt(flights, Legs(call)[2], j) = 6
          /\ \A i \in OptionsAt(flights, Legs(call)[2]) :
                flights[j].base_price_idr < flights[i].base_price_idr
    /\ \E i \in OptionsAt(flights, Legs(call)[2]) : result.proposed_flights[2] = flights[i]

\* A call whose outbound leg had flights but none with a seat.
C20_WitnessNoFlights ==
    /\ result.status = "error"
    /\ result.error = "NoFlightsAvailable"
    /\ DatedAt(flights, Legs(call)[1]) = {}
    /\ DatedAt(flights, Legs(call)[2]) # {}

---------------------------------------------------------------------------
(* The stay windows.                                                       *)

\* The nights the mapping of the allocator holds for the city at position
\* k: those computed for the last position at which the city stands.
AllottedAt(c, k) ==
    LET cs == c.chosen_itinerary.cities
        last == CHOOSE j \in DOMAIN cs :
                    cs[j] = cs[k] /\ \A m \in DOMAIN cs : cs[m] = cs[k] => m <= j
    IN  NightsAt(c, last)

Staying(c) == {k \in DOMAIN c.chosen_itinerary.cities : AllottedAt(c, k) > 0}

(* C21: in every successful resolution there is one stay for each city     *)
(* that was allotted nights, in visiting order, and none for a city with 0 *)
(* nights; the first stay starts on start_date, each stay ends on its      *)
(* start + nights - 1 and the next one starts the day after; a failure     *)
(* with NoHotelsAvailable names a city that was allotted nights.           *)
C21_ContiguousStayWindows ==
    /\ Succeeded(result) =>
          LET stays == StaysOf(result) IN
          /\ Len(stays) = Cardinality(Staying(call))
          /\ \A k \in Staying(call) :
                LET stay == stays[Cardinality({j \in Staying(call) : j <= k})]
                IN  /\ Lower(stay.city) = Lower(call.chosen_itinerary.cities[k])
                    /\ stay.nights = AllottedAt(call, k)
          /\ \A i \in DOMAIN stays :
                /\ stays[i].nights > 0
                /\ DayOf(stays[i].stay_end_date)
                      = DayOf(stays[i].stay_start_date) + stays[i].nights - 1
                /\ DayOf(stays[i].stay_start_date) =
                      IF i = 1 THEN call.user_prefs.start_date
                      ELSE DayOf(stays[i - 1].stay_end_date) + 1
    /\ (result.status = "error" /\ result.error = "NoHotelsAvailable") =>
          \E k \in Staying(call) : call.chosen_itinerary.cities[k] = result.city

\* A booking of two cities: the second stay starts the day after the first
\* one ends.
C21_Witness ==
    /\ result.status = "booked"
    /\ Len(result.booking_record.stays) = 2
    /\ DayOf(result.booking_record.stays[1].stay_start_date) = call.user_prefs.start_date
    /\ DayOf(result.booking_record.stays[2].stay_start_date)
          = DayOf(result.booking_record.stays[1].stay_end_date) + 1

\* A success for two cities and one day: the second city has no hotel of
\* the requested style or of its downgrade, and gets no stay.
C21_WitnessSkipped ==
    /\ Succeeded(result)
    /\ Len(call.chosen_itinerary.cities) = 2
    /\ call.user_prefs.trip_length_days = 1
    /\ Len(StaysOf(result)) = 1
    /\ \A st \in {call.user_prefs.travel_style, Downgrade(call.user_prefs.travel_style)} :
          MatchesAt(hotels, call.chosen_itinerary.cities[2],
                    call.chosen_itinerary.destination_country, st,
                    call.user_prefs.start_date, call.user_prefs.start_date) = {}

---------------------------------------------------------------------------
(* The order of the writes of create_booking.                              *)

\* The records of the ledger a reader finds that name the id.
ReferencesTo(id, field) ==
    Cardinality({n \in DOMAIN load_bookings(bookings) :
                    id \in Range(load_bookings(bookings)[n][field])})

(* C22: create_booking writes the ledger, then the flights, then the       *)
(* hotels, so that a failed inventory write leaves a record with inventory *)
(* not lowered, and no state is reached in which inventory was lowered for *)
(* a booking whose record is not in the ledger: every seat and every room  *)
(* taken off a record of the inventory is accounted for by a record of the *)
(* ledger that names its id.                                               *)
C22_DecrementOnlyWithRecord ==
    /\ \A i \in DOMAIN flights :
          LedgerFlights[i].seats_left - flights[i].seats_left
             <= ReferencesTo(flights[i].id, "flight_ids")
    /\ \A i \in DOMAIN hotels :
          LedgerHotels[i].rooms_left - hotels[i].rooms_left
             <= ReferencesTo(hotels[i].id, "hotel_ids")

\* The order within one call: a step that lowers a seat or a room count
\* leaves the record of the call last in the ledger, naming the id.
C22_RecordWrittenBeforeDecrement ==
    [][/\ \A i \in DOMAIN flights' :
             flights'[i].seats_left < flights[i].seats_left =>
                /\ bookings' # Unreadable
                /\ Len(bookings') = Len(load_bookings(bookings)) + 1
                /\ flights[i].id \in Range(bookings'[Len(bookings')].flight_ids)
       /\ \A i \in DOMAIN hotels' :
             hotels'[i].rooms_left < hotels[i].rooms_left =>
                /\ bookings' # Unreadable
                /\ Len(bookings') = Len(load_bookings(bookings)) + 1
                /\ hotels[i].id \in Range(bookings'[Len(bookings')].hotel_ids)
                /\ \A j \in DOMAIN flights' :
                      (flights[j].id \in Range(bookings'[Len(bookings')].flight_ids)
                       /\ flights[j].seats_left > 0)
                         => flights'[j].seats_left < flights[j].seats_left
    ]_vars

\* The partial commit: the call failed, its record is the last of the
\* ledger, the seat of its flight F1 is taken and the room of its hotel H1
\* is not.
C22_WitnessPartialCommit ==
    /\ result.status = "error"
    /\ bookings # Unreadable
    /\ Len(bookings) = 1
    /\ "F1" \in Range(bookings[1].flight_ids)
    /\ "H1" \in Range(bookings[1].hotel_ids)
    /\ flights # Truncated
    /\ hotels # Truncated
    /\ flights[1].seats_left = LedgerFlights[1].seats_left - 1
    /\ hotels[1].rooms_left = LedgerHotels[1].rooms_left

---------------------------------------------------------------------------
(* Selling no more than there is.                                          *)

\* No flight is named by more committed bookings than it had seats, no
\* hotel by more than it had rooms.
WithinStock ==
    /\ \A i \in DOMAIN flights :
          ReferencesTo(flights[i].id, "flight_ids") <= SellOutFlights[i].seats_left
    /\ \A i \in DOMAIN hotels :
          ReferencesTo(hotels[i].id, "hotel_ids") <= SellOutHotels[i].rooms_left

C23_WitnessSoldOut ==
    /\ Len(bookings) = 3
    /\ flights[1].seats_left = 0
    /\ flights[2].seats_left = 0
    /\ result.status = "error"
    /\ result.error = "NoFlightsAvailable"

====
